---- MODULE Spec2Model ----
(***************************************************************************)
(* Model of app.py, the Streamlit dashboard over the Census 2011 table.    *)
(* Streamlit re-executes the whole script on every interaction; one action *)
(* of this model is one interaction together with the script run(s) it     *)
(* causes.  Widget values persist between runs in the session; everything  *)
(* else (filtered_df, state_df, what was rendered) is rebuilt by each run. *)
(* plot is the Plot button as read by the last run; reset tells whether    *)
(* the interaction that caused the last run was a click on Reset.          *)
(*                                                                         *)
(* A row keeps the columns the script reads by name: State, District,     *)
(* Population and Literacy_Rate.  Literacy rates are whole percents.       *)
(***************************************************************************)
EXTENDS Integers, Sequences, FiniteSets, TLC

\* ---------------------------------------------------------------- bounds
MaxRows    == 2     \* rows of a table in Spec
MaxPop     == 2     \* largest Population value of a row
LitStep    == 100   \* granularity of the literacy percentages that occur
MaxTopRows == 6     \* rows of a table in SpecTop (one more than TopN)

\* ------------------------------------------------------ program constants
MinPopFloor == 0     \* slider lower end and default, line 53
MinLitFloor == 0     \* slider lower end and default (0.0), line 54
MaxLiteracy == 100   \* slider upper end (100.0), line 54
TopN        == 5     \* nlargest(5, primary), line 221
ZoomAll     == 3     \* line 100
ZoomState   == 6     \* line 104

OverallIndia == "Overall India"
StateNames   == {"Goa", "Kerala"}
DistrictNames == <<"D1", "D2", "D3", "D4", "D5", "D6", "D7", "D8">>

\* the columns the script reads by name, two of the seventeen size columns
\* and a numeric and a categorical colour column
Columns           == <<"State", "District", "Population", "Literacy_Rate">>
primary_columns   == <<"Population", "Literacy_Rate">>
secondary_columns == <<"Population", "State">>
chart_types       == <<"Bar", "Pie", "Box">>

PopVals == 1..MaxPop
LitVals == {v \in MinLitFloor..MaxLiteracy : v % LitStep = 0}

Min(a, b) == IF a <= b THEN a ELSE b

Range(s) == {s[i] : i \in 1..Len(s)}

\* ------------------------------------------------------------ input files
Row(st, i, p, l) ==
  [State |-> st, District |-> DistrictNames[i], Population |-> p, Literacy_Rate |-> l]

\* tables of n rows; the first row is of state `first`
TablesOf(n, first, states, pops, lits) ==
  { [i \in 1..n |-> Row(f[i][1], i, f[i][2], f[i][3])] :
      f \in {g \in [1..n -> states \X pops \X lits] : g[1][1] = first} }

\* the state names are interchangeable, so the first row is of Goa
Tables == UNION { TablesOf(n, "Goa", StateNames, PopVals, LitVals) : n \in 1..MaxRows }

\* tables of one state with at least TopN rows and many equal values
TopTables ==
  UNION { TablesOf(n, "Goa", {"Goa"}, {1, MaxPop}, {MaxLiteracy}) : n \in TopN..MaxTopRows }

FileKinds == {"missing", "empty", "malformed", "header_only", "ok"}

FilesOver(tables) ==
  {[kind |-> k, rows |-> <<>>] : k \in FileKinds \ {"ok"}}
    \cup {[kind |-> "ok", rows |-> t] : t \in tables}

\* ------------------------------------------------------------- load_data
\* pd.read_csv: FileNotFoundError and EmptyDataError are caught, reported
\* with st.error and followed by st.stop(); a ParserError is not caught; a
\* file with only the header line parses to a table without rows.
load_data(f) ==
  CASE f.kind = "missing"     -> [df |-> <<>>, message |-> "not_found", stopped |-> TRUE,  exception |-> "none"]
    [] f.kind = "empty"       -> [df |-> <<>>, message |-> "empty",     stopped |-> TRUE,  exception |-> "none"]
    [] f.kind = "malformed"   -> [df |-> <<>>, message |-> "none",      stopped |-> FALSE, exception |-> "ParserError"]
    [] f.kind = "header_only" -> [df |-> <<>>, message |-> "none",      stopped |-> FALSE, exception |-> "none"]
    [] OTHER                  -> [df |-> f.rows, message |-> "none",    stopped |-> FALSE, exception |-> "none"]

RECURSIVE Unique(_)
\* Series.unique(): values in order of first appearance
Unique(s) ==
  IF s = <<>> THEN <<>>
  ELSE LET rest == Unique(SubSeq(s, 1, Len(s) - 1))
           x == s[Len(s)]
       IN IF x \in Range(rest) THEN rest ELSE Append(rest, x)

list_of_states(d) == <<OverallIndia>> \o Unique([i \in 1..Len(d) |-> d[i].State])

RECURSIVE ColMax(_, _)
\* df[col].max() of a table with rows
ColMax(d, col) ==
  IF Len(d) = 1 THEN d[1][col]
  ELSE LET m == ColMax(Tail(d), col) IN IF d[1][col] >= m THEN d[1][col] ELSE m

\* ----------------------------------------------------------------- filter
RECURSIVE BoolIndex(_, _)
\* df[mask]: the rows whose mask entry is true, in table order
BoolIndex(d, mask) ==
  IF d = <<>> THEN <<>>
  ELSE IF mask[1] THEN <<d[1]>> \o BoolIndex(Tail(d), Tail(mask))
       ELSE BoolIndex(Tail(d), Tail(mask))

FilterPopulation(d, mp) == BoolIndex(d, [i \in 1..Len(d) |-> d[i].Population >= mp])
FilterLiteracy(d, ml)   == BoolIndex(d, [i \in 1..Len(d) |-> d[i].Literacy_Rate >= ml])
FilterState(d, ss)      == BoolIndex(d, [i \in 1..Len(d) |-> d[i].State = ss])

ApplyFiltersLiteracyOnDf(d, mp, ml) == FilterLiteracy(d, ml)

FilterPopulationStrict(d, mp) == BoolIndex(d, [i \in 1..Len(d) |-> d[i].Population > mp])

ApplyFiltersStrict(d, mp, ml) == FilterLiteracy(FilterPopulationStrict(d, mp), ml)

\* lines 84-85
ApplyFilters(d, mp, ml) == FilterLiteracy(FilterPopulation(d, mp), ml)

Unbound == [bound |-> FALSE, rows |-> <<>>]
Bound(rows) == [bound |-> TRUE, rows |-> rows]

\* lines 98-105: state_df, zoom and title
MapScope(fdf, ss) ==
  IF ss = OverallIndia
    THEN [state_df |-> fdf, zoom |-> ZoomAll, title |-> OverallIndia]
    ELSE [state_df |-> FilterState(fdf, ss), zoom |-> ZoomState, title |-> ss]

\* ------------------------------------------------------------------ views
NoMap       == [shown |-> FALSE, title |-> "", zoom |-> 0, size |-> "", color |-> "", points |-> <<>>]
NoSummary   == [shown |-> FALSE, title |-> "", total_population |-> 0,
                average_literacy |-> 0, total_districts |-> 0]
NoTop       == [shown |-> FALSE, column |-> "", rows |-> <<>>]
NoDownload  == [offered |-> FALSE, data |-> <<>>, file_name |-> <<>>]

\* lines 96-120: binds state_df, then the map or the region warning
MapTab(fdf, ss, pr, sc) ==
  LET scope == MapScope(fdf, ss)
  IN [state_df |-> Bound(scope.state_df),
      notices  |-> IF scope.state_df = <<>> THEN {"no_data_for_state"} ELSE {},
      map      |-> IF scope.state_df = <<>> THEN NoMap
                   ELSE [shown |-> TRUE, title |-> scope.title, zoom |-> scope.zoom,
                         size |-> pr, color |-> sc,
                         points |-> [i \in 1..Len(scope.state_df) |-> scope.state_df[i].District]]]

ChartsTabAnyScope(sd, ss, ct) ==
  IF sd.rows # <<>>
    THEN [charts |-> {ct}, notices |-> {}]
    ELSE [charts |-> {}, notices |-> {"charts_need_state"}]

\* lines 122-154: one chart of the chosen kind, or the warning
ChartsTab(sd, ss, ct) ==
  IF ss # OverallIndia /\ sd.rows # <<>>
    THEN [charts |-> IF ct = "Bar" THEN {"Bar"}
                     ELSE IF ct = "Pie" THEN {"Pie"}
                     ELSE IF ct = "Box" THEN {"Box"} ELSE {},
          notices |-> {}]
    ELSE [charts |-> {}, notices |-> {"charts_need_state"}]

RECURSIVE ColSum(_, _)
ColSum(d, col) == IF d = <<>> THEN 0 ELSE d[1][col] + ColSum(Tail(d), col)

\* f"{mean():.2f}": the mean in hundredths of a percent, rounded to nearest
\* (whole percents over fewer than eight rows never fall on an exact half)
Mean2(d, col) == (2 * 100 * ColSum(d, col) + Len(d)) \div (2 * Len(d))

\* lines 215-217 and 227-229: the three metric cards
Metrics(title, d) ==
  [shown |-> TRUE, title |-> title,
   total_population |-> ColSum(d, "Population"),
   average_literacy |-> Mean2(d, "Literacy_Rate"),
   total_districts  |-> Len(d)]

RECURSIVE InsertDesc(_, _, _)
\* r goes behind every row whose value is at least r's (stable)
InsertDesc(sorted, r, col) ==
  IF sorted = <<>> THEN <<r>>
  ELSE IF sorted[1][col] >= r[col]
         THEN <<sorted[1]>> \o InsertDesc(Tail(sorted), r, col)
         ELSE <<r>> \o sorted

RECURSIVE InsertDescBeforeTies(_, _, _)
InsertDescBeforeTies(sorted, r, col) ==
  IF sorted = <<>> THEN <<r>>
  ELSE IF sorted[1][col] > r[col]
         THEN <<sorted[1]>> \o InsertDescBeforeTies(Tail(sorted), r, col)
         ELSE <<r>> \o sorted

RECURSIVE SortDesc(_, _)
\* mergesort on the negated column: descending, ties in table order
SortDesc(d, col) ==
  IF d = <<>> THEN <<>>
  ELSE InsertDesc(SortDesc(SubSeq(d, 1, Len(d) - 1), col), d[Len(d)], col)

RECURSIVE SortDescUnstable(_, _)
SortDescUnstable(d, col) ==
  IF d = <<>> THEN <<>>
  ELSE InsertDescBeforeTies(SortDescUnstable(SubSeq(d, 1, Len(d) - 1), col), d[Len(d)], col)

nlargestUnstable(d, n, col) == SubSeq(SortDescUnstable(d, col), 1, Min(n, Len(d)))

\* DataFrame.nlargest(n, col), keep='first'
nlargest(d, n, col) == SubSeq(SortDesc(d, col), 1, Min(n, Len(d)))

\* line 221: state_df.nlargest(5, primary)[['District', primary]]
top_districts(sd, pr) ==
  LET top == nlargest(sd, TopN, pr)
  IN [shown |-> TRUE, column |-> pr,
      rows |-> [i \in 1..Len(top) |-> [District |-> top[i].District, value |-> top[i][pr]]]]

NumericalCols == <<"Population", "Literacy_Rate">>

\* lines 156-229
SummaryTab(fdf, sd, ss, pr) ==
  [heatmap |-> Len(NumericalCols) > 1,
   notices |-> IF Len(NumericalCols) > 1 THEN {} ELSE {"not_enough_numerical"},
   summary |-> IF ss # OverallIndia /\ sd.rows # <<>>
                 THEN Metrics(ss, sd.rows)
                 ELSE Metrics(OverallIndia, fdf),
   top     |-> IF ss # OverallIndia /\ sd.rows # <<>>
                 THEN top_districts(sd.rows, pr)
                 ELSE NoTop]

\* to_csv(index=False): the header line, then one line of text cells per row
CsvLine(r) == <<r.State, r.District, ToString(r.Population), ToString(r.Literacy_Rate)>>
to_csv(d) == <<Columns>> \o [i \in 1..Len(d) |-> CsvLine(d[i])]
to_csv_no_header(d) == [i \in 1..Len(d) |-> CsvLine(d[i])]

DownloadButtonNoHeader(sd, ss) ==
  IF ~sd.bound THEN [download |-> NoDownload, error |-> "NameError"]
  ELSE IF sd.rows # <<>>
    THEN [download |-> [offered |-> TRUE, data |-> to_csv_no_header(sd.rows),
                        file_name |-> <<ss, "_filtered_data.csv">>],
          error |-> "none"]
    ELSE [download |-> NoDownload, error |-> "none"]

\* lines 231-238: reads state_df, which only the else branch of line 95 binds
DownloadButton(sd, ss) ==
  IF ~sd.bound THEN [download |-> NoDownload, error |-> "NameError"]
  ELSE IF sd.rows # <<>>
    THEN [download |-> [offered |-> TRUE, data |-> to_csv(sd.rows),
                        file_name |-> <<ss, "_filtered_data.csv">>],
          error |-> "none"]
    ELSE [download |-> NoDownload, error |-> "none"]

\* ----------------------------------------------------------- one script run
SidebarWidgets == {"selected_state", "primary", "secondary", "min_population",
                   "min_literacy", "chart_type", "plot", "reset"}
\* the widgets of lines 30-49, created before line 53 evaluates df['Population'].max()
WidgetsBeforeSlider == {"selected_state", "primary", "secondary"}

NoOutput ==
  [widgets |-> {}, message |-> "none", error |-> "none", notices |-> {},
   map |-> NoMap, charts |-> {}, heatmap |-> FALSE, summary |-> NoSummary,
   top |-> NoTop, download |-> NoDownload]

PlotBranchAlways(pl) == TRUE

\* line 91: if plot
PlotBranch(pl) == pl

\* lines 83-238 for a loaded table with rows
Script(d, ss, pr, sc, mp, ml, ct, pl) ==
  LET fdf == ApplyFilters(d, mp, ml)
      idle == [NoOutput EXCEPT !.widgets = SidebarWidgets]
  IN IF ~PlotBranch(pl)
       THEN [filtered_df |-> fdf, state_df |-> Unbound, out |-> idle]
       ELSE IF fdf = <<>>
         THEN \* line 94, then line 232 with state_df never assigned
              [filtered_df |-> fdf, state_df |-> Unbound,
               out |-> [idle EXCEPT !.notices = {"no_data_matches"},
                                    !.download = DownloadButton(Unbound, ss).download,
                                    !.error = DownloadButton(Unbound, ss).error]]
         ELSE LET t1 == MapTab(fdf, ss, pr, sc)
                  sd == t1.state_df
                  t2 == ChartsTab(sd, ss, ct)
                  t3 == SummaryTab(fdf, sd, ss, pr)
                  dl == DownloadButton(sd, ss)
              IN [filtered_df |-> fdf, state_df |-> sd,
                  out |-> [idle EXCEPT !.notices = t1.notices \cup t2.notices \cup t3.notices,
                                       !.map = t1.map,
                                       !.charts = t2.charts,
                                       !.heatmap = t3.heatmap,
                                       !.summary = t3.summary,
                                       !.top = t3.top,
                                       !.download = dl.download,
                                       !.error = dl.error]]

\* ------------------------------------------------------------------ state
VARIABLES file, df, status,
          selected_state, primary, secondary, min_population, min_literacy,
          chart_type, plot, reset, filtered_df, state_df, out

selection == <<selected_state, primary, secondary, min_population, min_literacy, chart_type>>
vars == <<file, df, status, selected_state, primary, secondary, min_population,
          min_literacy, chart_type, plot, reset, filtered_df, state_df, out>>

InitOver(tables) ==
  /\ file \in FilesOver(tables)
  /\ df = <<>>
  /\ status = "init"
  /\ selected_state = "unset"
  /\ primary = "unset"
  /\ secondary = "unset"
  /\ min_population = 0
  /\ min_literacy = 0
  /\ chart_type = "unset"
  /\ plot = FALSE
  /\ reset = FALSE
  /\ filtered_df = <<>>
  /\ state_df = Unbound
  /\ out = NoOutput

Init == InitOver(Tables)

InitTop == InitOver(TopTables)

\* the script run that ends one interaction, with the widget values given;
\* plot is the value the Plot button reads in it, reset records whether the
\* interaction was a click on Reset
Run(ss, pr, sc, mp, ml, ct, pl, rs) ==
  LET r == Script(df, ss, pr, sc, mp, ml, ct, pl)
  IN /\ plot' = pl
     /\ reset' = rs
     /\ filtered_df' = r.filtered_df
     /\ state_df' = r.state_df
     /\ out' = r.out
     /\ UNCHANGED <<file, df, status>>

\* the first run of the session: lines 11-22, then the script with every
\* widget at its default
Start ==
  /\ status = "init"
  /\ LET l == load_data(file)
     IN /\ df' = l.df
        /\ UNCHANGED file
        /\ IF l.stopped \/ l.exception # "none"
             THEN /\ status' = IF l.stopped THEN "stopped" ELSE "failed"
                  /\ out' = [NoOutput EXCEPT !.message = l.message, !.error = l.exception]
                  /\ UNCHANGED <<selected_state, primary, secondary, min_population,
                                 min_literacy, chart_type, plot, reset, filtered_df,
                                 state_df>>
             ELSE IF l.df = <<>>
               THEN \* line 53: int() of the max of an empty column
                    /\ status' = "failed"
                    /\ selected_state' = list_of_states(l.df)[1]
                    /\ primary' = primary_columns[1]
                    /\ secondary' = secondary_columns[1]
                    /\ out' = [NoOutput EXCEPT !.widgets = WidgetsBeforeSlider,
                                               !.error = "ValueError"]
                    /\ UNCHANGED <<min_population, min_literacy, chart_type, plot,
                                   reset, filtered_df, state_df>>
               ELSE LET r == Script(l.df, list_of_states(l.df)[1], primary_columns[1],
                                    secondary_columns[1], MinPopFloor, MinLitFloor,
                                    chart_types[1], FALSE)
                    IN /\ status' = "running"
                       /\ selected_state' = list_of_states(l.df)[1]
                       /\ primary' = primary_columns[1]
                       /\ secondary' = secondary_columns[1]
                       /\ min_population' = MinPopFloor
                       /\ min_literacy' = MinLitFloor
                       /\ chart_type' = chart_types[1]
                       /\ plot' = FALSE
                       /\ reset' = FALSE
                       /\ filtered_df' = r.filtered_df
                       /\ state_df' = r.state_df
                       /\ out' = r.out

\* line 30
SelectState ==
  /\ status = "running"
  /\ \E s \in Range(list_of_states(df)) :
       /\ selected_state' = s
       /\ UNCHANGED <<primary, secondary, min_population, min_literacy, chart_type>>
       /\ Run(s, primary, secondary, min_population, min_literacy, chart_type, FALSE, FALSE)

\* line 40
SelectPrimary ==
  /\ status = "running"
  /\ \E c \in Range(primary_columns) :
       /\ primary' = c
       /\ UNCHANGED <<selected_state, secondary, min_population, min_literacy, chart_type>>
       /\ Run(selected_state, c, secondary, min_population, min_literacy, chart_type, FALSE, FALSE)

\* line 49
SelectSecondary ==
  /\ status = "running"
  /\ \E c \in Range(secondary_columns) :
       /\ secondary' = c
       /\ UNCHANGED <<selected_state, primary, min_population, min_literacy, chart_type>>
       /\ Run(selected_state, primary, c, min_population, min_literacy, chart_type, FALSE, FALSE)

\* line 53
SetMinPopulation ==
  /\ status = "running"
  /\ \E v \in MinPopFloor..ColMax(df, "Population") :
       /\ min_population' = v
       /\ UNCHANGED <<selected_state, primary, secondary, min_literacy, chart_type>>
       /\ Run(selected_state, primary, secondary, v, min_literacy, chart_type, FALSE, FALSE)

\* line 54
SetMinLiteracy ==
  /\ status = "running"
  /\ \E v \in LitVals :
       /\ min_literacy' = v
       /\ UNCHANGED <<selected_state, primary, secondary, min_population, chart_type>>
       /\ Run(selected_state, primary, secondary, min_population, v, chart_type, FALSE, FALSE)

\* line 57
SelectChartType ==
  /\ status = "running"
  /\ \E c \in Range(chart_types) :
       /\ chart_type' = c
       /\ UNCHANGED <<selected_state, primary, secondary, min_population, min_literacy>>
       /\ Run(selected_state, primary, secondary, min_population, min_literacy, c, FALSE, FALSE)

\* line 60: the run in which the button reads True
ClickPlot ==
  /\ status = "running"
  /\ UNCHANGED selection
  /\ Run(selected_state, primary, secondary, min_population, min_literacy, chart_type, TRUE, FALSE)

\* lines 61-65: the run in which reset reads True stops at st.experimental_rerun()
\* and the script runs again with the session's widget values and both buttons
\* reading False
ClickReset ==
  /\ status = "running"
  /\ UNCHANGED selection
  /\ Run(selected_state, primary, secondary, min_population, min_literacy, chart_type, FALSE, TRUE)

Next ==
  \/ Start
  \/ SelectState
  \/ SelectPrimary
  \/ SelectSecondary
  \/ SetMinPopulation
  \/ SetMinLiteracy
  \/ SelectChartType
  \/ ClickPlot
  \/ ClickReset

Spec == Init /\ [][Next]_vars

SpecTop == InitTop /\ [][Next]_vars

\* =================================================================== claims
Running == status = "running"

PassesThresholds(r) ==
  r.Population >= min_population /\ r.Literacy_Rate >= min_literacy

Passes(r) ==
  PassesThresholds(r) /\ (selected_state = OverallIndia \/ r.State = selected_state)

\* position of a row in a table; district names are unique in a table
Pos(tab, district) == CHOOSE j \in 1..Len(tab) : tab[j].District = district

\* sub holds exactly the rows of tab that satisfy P, once each, in tab's order
IsExactSelection(sub, tab, P(_)) ==
  /\ \A i \in 1..Len(sub) : (\E j \in 1..Len(tab) : tab[j] = sub[i]) /\ P(sub[i])
  /\ \A j \in 1..Len(tab) : P(tab[j]) => \E i \in 1..Len(sub) : sub[i] = tab[j]
  /\ \A i, k \in 1..Len(sub) :
       i < k => Pos(tab, sub[i].District) < Pos(tab, sub[k].District)

ViewsRendered ==
  \/ out.map.shown
  \/ out.charts # {}
  \/ out.heatmap
  \/ out.summary.shown
  \/ out.top.shown
  \/ out.download.offered

\* C1: in every run the threshold-filtered table is exactly the rows of the
\* table with Population >= min_population and Literacy_Rate >= min_literacy,
\* in table order; the working subset a Plot run binds is exactly the rows that
\* also lie in the selected state, and equals the filtered table for Overall India.
C1_WorkingSubsetExact ==
  Running =>
    /\ IsExactSelection(filtered_df, df, PassesThresholds)
    /\ state_df.bound =>
         /\ IsExactSelection(state_df.rows, df, Passes)
         /\ selected_state = OverallIndia => state_df.rows = filtered_df

C1_Witness ==
  /\ Running /\ plot /\ state_df.bound
  /\ selected_state # OverallIndia
  /\ state_df.rows # <<>>
  /\ Len(filtered_df) < Len(df)
  /\ \E i \in 1..Len(state_df.rows) : state_df.rows[i].Population = min_population

\* C2: a Plot run whose thresholds exclude every row shows the "no data matches"
\* warning, renders no map, chart, summary or download, and raises no error.
C2_EmptySelectionRecovers ==
  (Running /\ plot /\ filtered_df = <<>>) =>
    /\ "no_data_matches" \in out.notices
    /\ ~ViewsRendered
    /\ out.error = "none"

\* C3: views are rendered only by a run in which Plot fired; a run without it
\* renders nothing; a Plot run over a non-empty filtered table renders the
\* summary, and one over an empty filtered table shows the notice and no view.
C3_PlotGatesViews ==
  /\ ViewsRendered => (Running /\ plot /\ filtered_df # <<>>)
  /\ (Running /\ ~plot) => (~ViewsRendered /\ out.notices = {})
  /\ (Running /\ plot /\ filtered_df # <<>>) => (out.summary.shown /\ out.heatmap)
  /\ (Running /\ plot /\ filtered_df = <<>>) =>
       ("no_data_matches" \in out.notices /\ ~ViewsRendered)

C3_Witness ==
  Running /\ plot /\ out.map.shown /\ out.summary.shown /\ out.download.offered

\* C4: a missing file stops the session with the not-found message, an empty or
\* malformed file (unparseable, or without rows) stops it with an invalid-data
\* message, and in both cases no widget has been created.
C4_LoadFailsCleanly ==
  (status # "init" /\ file.kind # "ok") =>
    /\ status = "stopped"
    /\ out.widgets = {}
    /\ file.kind = "missing" => out.message = "not_found"
    /\ file.kind # "missing" => out.message = "empty"

DefaultSelection ==
  <<OverallIndia, primary_columns[1], secondary_columns[1], MinPopFloor, MinLitFloor,
    chart_types[1]>>

\* C5: the run that follows a click on Reset has every widget at its default.
C5_ResetRestoresDefaults ==
  (Running /\ reset) => selection = DefaultSelection

\* C6: the metrics of the summary view are the total population, mean literacy
\* rate and row count of the run's working subset (state_df), also when a
\* state is selected and none of its rows passes the thresholds.
C6_SummaryOverWorkingSubset ==
  (Running /\ plot /\ out.summary.shown) =>
    /\ out.summary.total_districts = Len(state_df.rows)
    /\ out.summary.total_population = ColSum(state_df.rows, "Population")
    /\ state_df.rows # <<>> =>
         out.summary.average_literacy = Mean2(state_df.rows, "Literacy_Rate")
    /\ (selected_state # OverallIndia /\ state_df.rows = <<>>) =>
         "no_data_for_state" \in out.notices

\* C7: in a Plot run over a non-empty filtered table a chart is rendered iff a
\* state is selected and state_df has rows; then exactly one chart, the one
\* named by chart_type, and otherwise none plus the charts warning.
C7_ChartOnlyForState ==
  (Running /\ plot /\ filtered_df # <<>>) =>
    /\ out.charts # {} <=> (selected_state # OverallIndia /\ state_df.rows # <<>>)
    /\ out.charts # {} =>
         /\ out.charts = {chart_type}
         /\ chart_type \in Range(chart_types)
         /\ "charts_need_state" \notin out.notices
    /\ out.charts = {} => "charts_need_state" \in out.notices

C7_Witness ==
  /\ Running /\ plot
  /\ selected_state # OverallIndia
  /\ out.charts = {"Pie"}
  /\ Len(state_df.rows) < Len(filtered_df)

\* C8: an offered download holds the header line and then one line per row of
\* the run's working subset (the rows of the table that pass the thresholds and
\* lie in the selected state), in order, and its file name holds the selected
\* state's name.
C8_DownloadIsWorkingSubset ==
  out.download.offered =>
    LET ws == SelectSeq(df, Passes)
        data == out.download.data
    IN /\ Running /\ plot
       /\ Len(data) = Len(ws) + 1
       /\ data[1] = Columns
       /\ \A i \in 1..Len(ws) :
            data[i + 1] = <<ws[i].State, ws[i].District,
                            ToString(ws[i].Population), ToString(ws[i].Literacy_Rate)>>
       /\ \E k \in 1..Len(out.download.file_name) :
            out.download.file_name[k] = selected_state

C8_Witness ==
  /\ out.download.offered
  /\ selected_state = "Goa"
  /\ Len(out.download.data) = 3

\* T lists the min(TopN, n) rows of S with the largest values of col, in
\* descending order, rows of equal value in the order they have in S
IsTopOf(T, S, col) ==
  /\ Len(T) = Min(TopN, Len(S))
  /\ \A i \in 1..Len(T) :
       \E j \in 1..Len(S) : S[j].District = T[i].District /\ S[j][col] = T[i].value
  /\ \A i, k \in 1..Len(T) : i < k =>
       \/ T[i].value > T[k].value
       \/ T[i].value = T[k].value /\ Pos(S, T[i].District) < Pos(S, T[k].District)
  /\ \A j \in 1..Len(S) :
       (\A i \in 1..Len(T) : T[i].District # S[j].District) =>
         \A i \in 1..Len(T) :
           \/ T[i].value > S[j][col]
           \/ T[i].value = S[j][col] /\ Pos(S, T[i].District) < j

\* C9 as claimed: every Plot run over a non-empty filtered table shows the
\* top-5 table of its working subset, for Overall India as for a state.
C9_TopFiveAlwaysShown ==
  (Running /\ plot /\ filtered_df # <<>>) =>
    /\ out.summary.shown
    /\ out.top.shown
    /\ IsTopOf(out.top.rows, state_df.rows, primary)

\* C9 as amended: the summary view is shown in every Plot run over a non-empty
\* filtered table, and it holds the top-5 table iff a state is selected and
\* state_df has rows; the table then lists the min(5, n) rows of state_df with
\* the largest values of the size column, descending, ties in table order.
C9_TopFiveForState ==
  (Running /\ plot /\ filtered_df # <<>>) =>
    /\ out.summary.shown
    /\ out.top.shown <=> (selected_state # OverallIndia /\ state_df.rows # <<>>)
    /\ out.top.shown =>
         /\ out.top.column = primary
         /\ IsTopOf(out.top.rows, state_df.rows, primary)

C9_Witness ==
  /\ Running /\ plot /\ out.top.shown
  /\ Len(state_df.rows) > TopN
  /\ Len(out.top.rows) = TopN
  /\ out.top.rows[1].value > out.top.rows[TopN].value
  /\ \E j \in 1..Len(state_df.rows) :
       /\ \A i \in 1..TopN : out.top.rows[i].District # state_df.rows[j].District
       /\ state_df.rows[j][primary] = out.top.rows[TopN].value
       /\ j < Len(state_df.rows)

\* C10: filtering the filtered table (or the working subset) again with the
\* same or looser thresholds changes nothing, and the population, literacy and
\* state restrictions give the same rows in each of their six orders.
C10_FilterIdempotentAnyOrder ==
  Running =>
    /\ \A p \in MinPopFloor..min_population :
         \A l \in {v \in LitVals : v <= min_literacy} :
           /\ ApplyFilters(filtered_df, p, l) = filtered_df
           /\ state_df.bound =>
                MapScope(ApplyFilters(state_df.rows, p, l), selected_state).state_df
                  = state_df.rows
    /\ FilterPopulation(FilterLiteracy(df, min_literacy), min_population) = filtered_df
    /\ (state_df.bound /\ selected_state # OverallIndia) =>
         LET s == selected_state
             p == min_population
             l == min_literacy
         IN /\ FilterState(FilterLiteracy(FilterPopulation(df, p), l), s) = state_df.rows
            /\ FilterState(FilterPopulation(FilterLiteracy(df, l), p), s) = state_df.rows
            /\ FilterLiteracy(FilterState(FilterPopulation(df, p), s), l) = state_df.rows
            /\ FilterPopulation(FilterState(FilterLiteracy(df, l), s), p) = state_df.rows
            /\ FilterLiteracy(FilterPopulation(FilterState(df, s), p), l) = state_df.rows
            /\ FilterPopulation(FilterLiteracy(FilterState(df, s), l), p) = state_df.rows

C10_Witness ==
  /\ Running /\ plot /\ state_df.bound
  /\ selected_state # OverallIndia
  /\ min_population > MinPopFloor
  /\ min_literacy > MinLitFloor
  /\ state_df.rows # <<>>
  /\ Len(state_df.rows) < Len(df)

====
